---- MODULE Spec2Model ----
(***************************************************************************)
(* Model of the orchestration and resilience layer of the fact-checker     *)
(* backend:                                                                *)
(*   - CircuitBreaker      (src/backend/src/utils/circuit_breaker.py)      *)
(*   - ConnectionManager   (src/backend/src/api/websocket/                 *)
(*                          connection_manager.py)                        *)
(* Both run on one asyncio event loop: code between two awaits is one     *)
(* atomic action, an await is a point where other actions interleave.      *)
(***************************************************************************)
EXTENDS Integers, Sequences, FiniteSets, TLC

\* ------------------------------------------------------------------------
\* Bounds
\* ------------------------------------------------------------------------
MaxThreshold == 3       \* failure_threshold is drawn from 1..MaxThreshold
MaxTimeout == 2         \* recovery_timeout is drawn from 1..MaxTimeout
MaxTime == 4            \* the clock time.time() runs over 0..MaxTime
NumCallers == 2         \* concurrent callers of CircuitBreaker.call
NumConns == 3           \* WebSocket objects

Callers == 1..NumCallers
Conns == 1..NumConns

\* last_failure_time = None
None == -1

\* successes needed in HALF_OPEN to close the circuit
SuccessesToClose == 2

VARIABLES
    \* ---- CircuitBreaker fields ----
    failure_threshold,   \* constructor argument
    recovery_timeout,    \* constructor argument
    state,               \* "closed" | "open" | "half_open"
    failure_count,
    success_count,
    last_failure_time,   \* None or a clock value
    \* ---- environment of the breaker ----
    now,                 \* time.time()
    callPc,              \* per caller: "idle" | "inflight" (awaiting func)
    admittedIn,          \* per caller in flight: breaker state when func
                         \* was invoked
    callResult,          \* how the most recent call() ended, and whose
    consecFails,         \* history: failures recorded since the last
                         \* recorded success, reset() or construction
    hoFailAt,            \* history: time of the last failure recorded in
                         \* HALF_OPEN since the last reset(), or None
    \* ---- ConnectionManager fields ----
    active_connections,  \* the set, as a sequence in its iteration order
    connection_metadata, \* connections that have a metadata entry
    \* ---- one broadcast() call ----
    bcPc,                \* "idle" | "gathering"
    tasks,               \* connections the sends were created for, in order
    results,             \* per task: "pending" | "True" | "False" | "Exception"
    bcReturn,            \* value returned by the last broadcast, None before
    bcRaised,            \* TRUE iff the last broadcast raised
    bcRemoved,           \* history: connections removed by the last broadcast
    bcAfter,             \* history: registered set when it returned
    interfered           \* history: connect/disconnect ran during the gather

cbVars == <<failure_threshold, recovery_timeout, state, failure_count,
            success_count, last_failure_time, now, callPc, admittedIn,
            callResult, consecFails, hoFailAt>>
cmVars == <<active_connections, connection_metadata, bcPc, tasks, results,
            bcReturn, bcRaised, bcRemoved, bcAfter, interfered>>

\* ------------------------------------------------------------------------
\* Helpers
\* ------------------------------------------------------------------------
Range(s) == {s[i] : i \in 1..Len(s)}

Min(a, b) == IF a <= b THEN a ELSE b

\* insert x so that it becomes element number pos of the result
InsertAt(s, pos, x) == SubSeq(s, 1, pos - 1) \o <<x>> \o SubSeq(s, pos, Len(s))

\* the sequence without the elements of set S, order preserved
RECURSIVE Without(_, _)
Without(s, S) ==
    IF s = <<>> THEN <<>>
    ELSE IF Head(s) \in S THEN Without(Tail(s), S)
         ELSE <<Head(s)>> \o Without(Tail(s), S)

\* ------------------------------------------------------------------------
\* CircuitBreaker
\* ------------------------------------------------------------------------
NoResult == [caller |-> 0, kind |-> "none", failure_count |-> 0,
             retry_after |-> 0]

\* _should_attempt_reset
ShouldAttemptResetLate(lft, t, timeout) ==
    IF lft = None THEN TRUE ELSE t - lft > timeout

ShouldAttemptReset(lft, t, timeout) ==
    IF lft = None THEN TRUE ELSE t - lft >= timeout

\* _check_state: the breaker's (state, success_count) after the check
CheckStateNoClear(st, sc, lft, t, timeout) ==
    IF st = "open" /\ ShouldAttemptReset(lft, t, timeout)
    THEN [state |-> "half_open", success_count |-> sc]
    ELSE [state |-> st, success_count |-> sc]

CheckState(st, sc, lft, t, timeout) ==
    IF st = "open" /\ ShouldAttemptReset(lft, t, timeout)
    THEN [state |-> "half_open", success_count |-> 0]
    ELSE [state |-> st, success_count |-> sc]

\* _record_success that counts the successes of probes and never closes
RecordSuccessNoClose(st, fc, sc) ==
    [state |-> st, failure_count |-> fc,
     success_count |-> IF st = "half_open" THEN 1 ELSE sc]

\* _record_success that closes the circuit without clearing failure_count
RecordSuccessKeepFailures(st, fc, sc) ==
    IF st = "half_open"
    THEN IF sc + 1 >= SuccessesToClose
         THEN [state |-> "closed", failure_count |-> fc, success_count |-> 0]
         ELSE [state |-> st, failure_count |-> fc, success_count |-> sc + 1]
    ELSE [state |-> st, failure_count |-> fc, success_count |-> sc]

\* _record_success: (state, failure_count, success_count) afterwards
RecordSuccess(st, fc, sc) ==
    IF st = "half_open"
    THEN IF sc + 1 >= SuccessesToClose
         THEN [state |-> "closed", failure_count |-> 0, success_count |-> 0]
         ELSE [state |-> st, failure_count |-> fc, success_count |-> sc + 1]
    ELSE [state |-> st, failure_count |-> fc, success_count |-> sc]

\* _record_failure: (state, failure_count, last_failure_time) afterwards
RecordFailureStrict(st, fc, t, threshold) ==
    [state |-> IF st = "half_open" THEN "open"
               ELSE IF fc + 1 > threshold THEN "open" ELSE st,
     failure_count |-> fc + 1,
     last_failure_time |-> t]

RecordFailureClosedOnly(st, fc, t, threshold) ==
    [state |-> IF st = "closed" /\ fc + 1 >= threshold THEN "open" ELSE st,
     failure_count |-> fc + 1,
     last_failure_time |-> t]

RecordFailure(st, fc, t, threshold) ==
    [state |-> IF st = "half_open" THEN "open"
               ELSE IF fc + 1 >= threshold THEN "open" ELSE st,
     failure_count |-> fc + 1,
     last_failure_time |-> t]

\* the ExternalServiceError raised by call() when the circuit is open
CircuitOpenError(c, fc, timeout) ==
    [caller |-> c, kind |-> "circuit_open", failure_count |-> fc,
     retry_after |-> timeout]

CBInit ==
    /\ failure_threshold \in 1..MaxThreshold
    /\ recovery_timeout \in 1..MaxTimeout
    /\ state = "closed"
    /\ failure_count = 0
    /\ success_count = 0
    /\ last_failure_time = None
    /\ now = 0
    /\ callPc = [c \in Callers |-> "idle"]
    /\ admittedIn = [c \in Callers |-> "none"]
    /\ callResult = NoResult
    /\ consecFails = 0
    /\ hoFailAt = None

\* call(): _check_state leaves the circuit open, ExternalServiceError is
\* raised and func is not invoked
CallOpenReject(c) ==
    LET chk == CheckState(state, success_count, last_failure_time, now,
                          recovery_timeout)
    IN /\ callPc[c] = "idle"
       /\ chk.state = "open"
       /\ state' = chk.state
       /\ success_count' = chk.success_count
       /\ callResult' = CircuitOpenError(c, failure_count, recovery_timeout)
       /\ UNCHANGED <<failure_threshold, recovery_timeout, failure_count,
                      last_failure_time, now, callPc, admittedIn,
                      consecFails, hoFailAt>>

\* call(): _check_state, circuit not open, func is invoked and awaited
CallAdmit(c) ==
    LET chk == CheckState(state, success_count, last_failure_time, now,
                          recovery_timeout)
    IN /\ callPc[c] = "idle"
       /\ chk.state # "open"
       /\ state' = chk.state
       /\ success_count' = chk.success_count
       /\ callPc' = [callPc EXCEPT ![c] = "inflight"]
       /\ admittedIn' = [admittedIn EXCEPT ![c] = chk.state]
       /\ UNCHANGED <<failure_threshold, recovery_timeout, failure_count,
                      last_failure_time, now, callResult, consecFails,
                      hoFailAt>>

\* call(): func returned, _record_success, result returned
CallSucceed(c) ==
    LET r == RecordSuccess(state, failure_count, success_count)
    IN /\ callPc[c] = "inflight"
       /\ state' = r.state
       /\ failure_count' = r.failure_count
       /\ success_count' = r.success_count
       /\ callPc' = [callPc EXCEPT ![c] = "idle"]
       /\ admittedIn' = [admittedIn EXCEPT ![c] = "none"]
       /\ callResult' = [caller |-> c, kind |-> "ok", failure_count |-> 0,
                         retry_after |-> 0]
       /\ consecFails' = 0
       /\ UNCHANGED <<failure_threshold, recovery_timeout,
                      last_failure_time, now, hoFailAt>>

\* the bare `raise` of call(): the collaborator's own exception
ReraisedAsUnavailable(c) ==
    [caller |-> c, kind |-> "circuit_open", failure_count |-> 0,
     retry_after |-> 0]

Reraised(c) ==
    [caller |-> c, kind |-> "collaborator_error", failure_count |-> 0,
     retry_after |-> 0]

\* call(): func raised expected_exception, _record_failure, re-raise
CallFail(c) ==
    LET r == RecordFailure(state, failure_count, now, failure_threshold)
    IN /\ callPc[c] = "inflight"
       /\ state' = r.state
       /\ failure_count' = r.failure_count
       /\ last_failure_time' = r.last_failure_time
       /\ callPc' = [callPc EXCEPT ![c] = "idle"]
       /\ admittedIn' = [admittedIn EXCEPT ![c] = "none"]
       /\ callResult' = Reraised(c)
       /\ consecFails' = consecFails + 1
       /\ hoFailAt' = IF state = "half_open" THEN now ELSE hoFailAt
       /\ UNCHANGED <<failure_threshold, recovery_timeout, success_count,
                      now>>

\* reset()
ResetKeepFailures ==
    /\ state' = "closed"
    /\ success_count' = 0
    /\ last_failure_time' = None
    /\ consecFails' = 0
    /\ hoFailAt' = None
    /\ UNCHANGED <<failure_threshold, recovery_timeout, failure_count, now,
                   callPc, admittedIn, callResult>>

Reset ==
    /\ state' = "closed"
    /\ failure_count' = 0
    /\ success_count' = 0
    /\ last_failure_time' = None
    /\ consecFails' = 0
    /\ hoFailAt' = None
    /\ UNCHANGED <<failure_threshold, recovery_timeout, now, callPc,
                   admittedIn, callResult>>

\* the clock advances
Tick ==
    /\ now < MaxTime
    /\ now' = now + 1
    /\ UNCHANGED <<failure_threshold, recovery_timeout, state, failure_count,
                   success_count, last_failure_time, callPc, admittedIn,
                   callResult, consecFails, hoFailAt>>

\* ------------------------------------------------------------------------
\* ConnectionManager
\* ------------------------------------------------------------------------
\* outcomes of websocket.send_json
SendOutcomes == {"sent", "throws"}

\* _send_safe: the value the coroutine finishes with
SendSafe(outcome) == IF outcome = "sent" THEN "True" ELSE "False"

\* asyncio.gather(*tasks, return_exceptions=True) is done
GatherDoneAny(res) == \E i \in 1..Len(res) : res[i] # "pending"

GatherDone(res) == \A i \in 1..Len(res) : res[i] # "pending"

\* return_exceptions argument of the gather in broadcast
ReturnExceptions == TRUE

\* gather propagates an exception of a task unless return_exceptions
GatherRaises(res) ==
    ~ReturnExceptions /\ \E i \in 1..Len(res) : res[i] = "Exception"

\* zip(list(self._active_connections), results)
ZipLen(conns, res) == Min(Len(conns), Len(res))

\* failed_connections of broadcast
FailedConnectionsExcOnly(conns, res) ==
    {conns[i] : i \in {j \in 1..ZipLen(conns, res) : res[j] = "Exception"}}

FailedConnections(conns, res) ==
    {conns[i] : i \in {j \in 1..ZipLen(conns, res) :
                         res[j] \in {"Exception", "False"}}}

\* successful_count of broadcast
SuccessfulCount(conns, res) ==
    Cardinality({j \in 1..ZipLen(conns, res) :
                   res[j] \notin {"Exception", "False"}})

CMInit ==
    /\ active_connections = <<>>
    /\ connection_metadata = {}
    /\ bcPc = "idle"
    /\ tasks = <<>>
    /\ results = <<>>
    /\ bcReturn = None
    /\ bcRaised = FALSE
    /\ bcRemoved = {}
    /\ bcAfter = {}
    /\ interfered = FALSE

\* connect(websocket, metadata): accept() succeeded, the object is added to
\* the set (at a place in the iteration order that its hash decides)
Connect(c, withMeta) ==
    /\ c \notin Range(active_connections)
    /\ bcPc = "gathering" => c \notin Range(tasks)
    /\ \E pos \in 1..(Len(active_connections) + 1) :
          active_connections' = InsertAt(active_connections, pos, c)
    /\ connection_metadata' = IF withMeta THEN connection_metadata \cup {c}
                              ELSE connection_metadata
    /\ interfered' = (interfered \/ bcPc = "gathering")
    /\ UNCHANGED <<bcPc, tasks, results, bcReturn, bcRaised, bcRemoved,
                   bcAfter>>

\* connection_count
ConnectionCount == Len(active_connections)

\* disconnect that leaves the metadata entry
DisconnectKeepMetadata(c) ==
    /\ c \in Range(active_connections)
    /\ active_connections' = Without(active_connections, {c})
    /\ interfered' = (interfered \/ bcPc = "gathering")
    /\ UNCHANGED <<connection_metadata, bcPc, tasks, results, bcReturn,
                   bcRaised, bcRemoved, bcAfter>>

\* disconnect(websocket), as called by handle_connection's finally
Disconnect(c) ==
    /\ c \in Range(active_connections)
    /\ active_connections' = Without(active_connections, {c})
    /\ connection_metadata' = connection_metadata \ {c}
    /\ interfered' = (interfered \/ bcPc = "gathering")
    /\ UNCHANGED <<bcPc, tasks, results, bcReturn, bcRaised, bcRemoved,
                   bcAfter>>

\* broadcast() with no active connection: return 0
BroadcastEmpty ==
    /\ bcPc = "idle"
    /\ active_connections = <<>>
    /\ tasks' = <<>>
    /\ results' = <<>>
    /\ bcReturn' = 0
    /\ bcRaised' = FALSE
    /\ bcRemoved' = {}
    /\ bcAfter' = {}
    /\ interfered' = FALSE
    /\ UNCHANGED <<active_connections, connection_metadata, bcPc>>

\* broadcast(): one _send_safe per active connection, then await gather
BroadcastStart ==
    /\ bcPc = "idle"
    /\ active_connections # <<>>
    /\ tasks' = active_connections
    /\ results' = [i \in 1..Len(active_connections) |-> "pending"]
    /\ bcPc' = "gathering"
    /\ bcReturn' = None
    /\ bcRaised' = FALSE
    /\ bcRemoved' = {}
    /\ bcAfter' = {}
    /\ interfered' = FALSE
    /\ UNCHANGED <<active_connections, connection_metadata>>

\* one _send_safe coroutine finishes
SendComplete(i, outcome) ==
    /\ bcPc \in {"gathering", "group_gathering"}
    /\ i \in 1..Len(results)
    /\ results[i] = "pending"
    /\ results' = [results EXCEPT ![i] = SendSafe(outcome)]
    /\ UNCHANGED <<active_connections, connection_metadata, bcPc, tasks,
                   bcReturn, bcRaised, bcRemoved, bcAfter, interfered>>

\* broadcast(): gather is done; classify the results against the current
\* set, disconnect the failed connections, return successful_count
BroadcastJoin ==
    LET failed == FailedConnections(active_connections, results)
    IN /\ bcPc = "gathering"
       /\ GatherDone(results)
       /\ bcPc' = "idle"
       /\ IF GatherRaises(results)
          THEN /\ bcRaised' = TRUE
               /\ bcReturn' = None
               /\ bcRemoved' = {}
               /\ bcAfter' = Range(active_connections)
               /\ UNCHANGED <<active_connections, connection_metadata>>
          ELSE /\ bcRaised' = FALSE
               /\ bcReturn' = SuccessfulCount(active_connections, results)
               /\ active_connections' = Without(active_connections, failed)
               /\ connection_metadata' = connection_metadata \ failed
               /\ bcRemoved' = failed
               /\ bcAfter' = Range(active_connections) \ failed
       /\ UNCHANGED <<tasks, results, interfered>>

\* broadcast_to_group(message, group_filter), group_filter being true of
\* the metadata of the connections in group: return 0 if there is none,
\* else one _send_safe per connection of the group, then await gather
GroupStart(group) ==
    /\ bcPc = "idle"
    /\ group \subseteq connection_metadata
    /\ tasks' = SelectSeq(active_connections, LAMBDA c : c \in group)
    /\ results' = [i \in 1..Cardinality(group) |-> "pending"]
    /\ bcPc' = IF group = {} THEN "idle" ELSE "group_gathering"
    /\ bcReturn' = IF group = {} THEN 0 ELSE None
    /\ bcRaised' = FALSE
    /\ bcRemoved' = {}
    /\ bcAfter' = Range(active_connections)
    /\ interfered' = FALSE
    /\ UNCHANGED <<active_connections, connection_metadata>>

\* broadcast_to_group(): gather is done; count the results and return
GroupJoin ==
    /\ bcPc = "group_gathering"
    /\ GatherDone(results)
    /\ bcPc' = "idle"
    /\ bcRaised' = GatherRaises(results)
    /\ bcReturn' = IF GatherRaises(results) THEN None
                   ELSE Cardinality({j \in 1..Len(results) :
                                       results[j] \notin {"Exception", "False"}})
    /\ bcRemoved' = {}
    /\ bcAfter' = Range(active_connections)
    /\ UNCHANGED <<active_connections, connection_metadata, tasks, results,
                   interfered>>

\* ------------------------------------------------------------------------
\* CircuitBreakerManager
\* ------------------------------------------------------------------------
MgrThreshold == 2       \* failure_threshold of the breakers that are added
MgrTimeout == 1         \* recovery_timeout of the breakers that are added

\* names breakers are registered under; "missing" is never registered
Names == {"exa", "groq"}
Missing == "missing"

VARIABLES
    breakers,            \* the dict: name -> breaker object, or NoBreaker
    mgPc,                \* per name: a call() on breakers[name] awaits func
    mgLast               \* history: the last manager / breaker operation

mgVars == <<breakers, mgPc, mgLast>>

\* breakers.get(name) is None
NoBreaker == [state |-> "unregistered"]

\* CircuitBreaker.__init__
NewBreaker(threshold, timeout) ==
    [failure_threshold |-> threshold, recovery_timeout |-> timeout,
     state |-> "closed", failure_count |-> 0, success_count |-> 0,
     last_failure_time |-> None]

\* CircuitBreaker.reset on the object b
ResetBreaker(b) ==
    [b EXCEPT !.state = "closed", !.failure_count = 0, !.success_count = 0,
              !.last_failure_time = None]

\* CircuitBreaker._check_state on the object b
CheckBreaker(b) ==
    LET chk == CheckState(b.state, b.success_count, b.last_failure_time, now,
                          b.recovery_timeout)
    IN [b EXCEPT !.state = chk.state, !.success_count = chk.success_count]

\* CircuitBreaker._record_success on the object b
SucceedBreaker(b) ==
    LET r == RecordSuccess(b.state, b.failure_count, b.success_count)
    IN [b EXCEPT !.state = r.state, !.failure_count = r.failure_count,
                 !.success_count = r.success_count]

\* CircuitBreaker._record_failure on the object b
FailBreaker(b) ==
    LET r == RecordFailure(b.state, b.failure_count, now, b.failure_threshold)
    IN [b EXCEPT !.state = r.state, !.failure_count = r.failure_count,
                 !.last_failure_time = r.last_failure_time]

MgrOp(op, name, ret) == [op |-> op, name |-> name, ret |-> ret]

\* __init__: breakers = {}
MgrInit ==
    /\ breakers = [n \in Names |-> NoBreaker]
    /\ mgPc = [n \in Names |-> "idle"]
    /\ mgLast = MgrOp("none", Missing, FALSE)

\* add_breaker(breaker): breakers[breaker.name] = breaker. A breaker
\* registered under the name before is replaced; a call in flight on the
\* replaced object completes on an object the manager no longer holds.
AddBreaker(n) ==
    /\ breakers' = [breakers EXCEPT ![n] = NewBreaker(MgrThreshold, MgrTimeout)]
    /\ mgPc' = [mgPc EXCEPT ![n] = "idle"]
    /\ mgLast' = MgrOp("add", n, TRUE)

\* get_breaker(n).call(func): the circuit stays open, the call is rejected
MgrCallReject(n) ==
    /\ breakers[n] # NoBreaker
    /\ mgPc[n] = "idle"
    /\ CheckBreaker(breakers[n]).state = "open"
    /\ breakers' = [breakers EXCEPT ![n] = CheckBreaker(breakers[n])]
    /\ mgLast' = MgrOp("rejected", n, FALSE)
    /\ UNCHANGED mgPc

\* get_breaker(n).call(func): func is invoked and awaited
MgrCallAdmit(n) ==
    /\ breakers[n] # NoBreaker
    /\ mgPc[n] = "idle"
    /\ CheckBreaker(breakers[n]).state # "open"
    /\ breakers' = [breakers EXCEPT ![n] = CheckBreaker(breakers[n])]
    /\ mgPc' = [mgPc EXCEPT ![n] = "inflight"]
    /\ mgLast' = MgrOp("admitted", n, TRUE)

\* func returned
MgrCallSucceed(n) ==
    /\ mgPc[n] = "inflight"
    /\ breakers' = [breakers EXCEPT ![n] = SucceedBreaker(breakers[n])]
    /\ mgPc' = [mgPc EXCEPT ![n] = "idle"]
    /\ mgLast' = MgrOp("returned", n, TRUE)

\* func raised
MgrCallFail(n) ==
    /\ mgPc[n] = "inflight"
    /\ breakers' = [breakers EXCEPT ![n] = FailBreaker(breakers[n])]
    /\ mgPc' = [mgPc EXCEPT ![n] = "idle"]
    /\ mgLast' = MgrOp("raised", n, FALSE)

\* reset_all()
MgrResetAll ==
    /\ breakers' = [n \in Names |->
                      IF breakers[n] = NoBreaker THEN NoBreaker
                      ELSE ResetBreaker(breakers[n])]
    /\ mgLast' = MgrOp("reset_all", Missing, TRUE)
    /\ UNCHANGED mgPc

\* reset(name)
MgrResetEvery(name) ==
    /\ breakers' = [n \in Names |->
                      IF breakers[n] = NoBreaker THEN NoBreaker
                      ELSE ResetBreaker(breakers[n])]
    /\ mgLast' = MgrOp("reset", name,
                       name \in Names /\ breakers[name] # NoBreaker)
    /\ UNCHANGED mgPc

MgrReset(name) ==
    /\ IF name \in Names /\ breakers[name] # NoBreaker
       THEN /\ breakers' = [breakers EXCEPT
                               ![name] = ResetBreaker(breakers[name])]
            /\ mgLast' = MgrOp("reset", name, TRUE)
       ELSE /\ breakers' = breakers
            /\ mgLast' = MgrOp("reset", name, FALSE)
    /\ UNCHANGED mgPc

\* ------------------------------------------------------------------------
\* Text: a str is a sequence of one-character strings
\* ------------------------------------------------------------------------
\* str.isspace
IsSpace(ch) == ch \in {" ", "\t", "\n"}

\* the class [.!?] of the split pattern
IsTerm(ch) == ch \in {".", "!", "?"}

\* \d
IsDigit(ch) == ch \in {"0", "1", "2", "3", "4", "5", "6", "7", "8", "9"}

\* str.isalnum, on the characters the model uses
IsAlnum(ch) == ~IsSpace(ch) /\ ch \notin {".", ",", "!", "?", ";", ":", "'"}

\* str.lower, on the characters the model uses
Lower(ch) ==
    CASE ch = "A" -> "a"
      [] ch = "B" -> "b"
      [] ch = "S" -> "s"
      [] ch = "T" -> "t"
      [] OTHER -> ch

LowerStr(s) == [i \in 1..Len(s) |-> Lower(s[i])]

\* str.lstrip / str.rstrip / str.strip
RECURSIVE LStrip(_)
LStrip(s) ==
    IF s # <<>> /\ IsSpace(Head(s)) THEN LStrip(Tail(s)) ELSE s

RECURSIVE RStrip(_)
RStrip(s) ==
    IF s # <<>> /\ IsSpace(s[Len(s)])
    THEN RStrip(SubSeq(s, 1, Len(s) - 1)) ELSE s

Strip(s) == LStrip(RStrip(s))

\* str.rstrip('.')
RECURSIVE RStripDots(_)
RStripDots(s) ==
    IF s # <<>> /\ s[Len(s)] = "."
    THEN RStripDots(SubSeq(s, 1, Len(s) - 1)) ELSE s

\* ' '.join(s.split()): whitespace runs become one space, none at the ends
RECURSIVE JoinSplit(_)
JoinSplit(s) ==
    LET t == LStrip(s)
    IN IF t = <<>> THEN <<>>
       ELSE IF Len(t) > 1 /\ IsSpace(t[2])
            THEN IF LStrip(Tail(t)) = <<>> THEN <<t[1]>>
                 ELSE <<t[1], " ">> \o JoinSplit(Tail(t))
            ELSE <<t[1]>> \o JoinSplit(Tail(t))

\* ------------------------------------------------------------------------
\* SentenceAggregator
\* ------------------------------------------------------------------------
\* the matches of r'(?<=[.!?])\s+' in s: a match starts at a whitespace
\* character that follows a terminator
SepStarts(s) == {i \in 2..Len(s) : IsTerm(s[i - 1]) /\ IsSpace(s[i])}

\* \s+ is greedy: index of the last character of the whitespace run that
\* starts at i
RunEnd(s, i) ==
    CHOOSE j \in i..Len(s) :
        /\ \A k \in i..j : IsSpace(s[k])
        /\ j = Len(s) \/ ~IsSpace(s[j + 1])

\* the k-th smallest element of the set S of numbers
Nth(S, k) == CHOOSE x \in S : Cardinality({y \in S : y < x}) = k - 1

\* re.split(r'(?<=[.!?])\s+', s)
SplitSentences(s) ==
    LET seps == SepStarts(s)
        n == Cardinality(seps)
        from(k) == IF k = 1 THEN 1 ELSE RunEnd(s, Nth(seps, k - 1)) + 1
        to(k) == IF k = n + 1 THEN Len(s) ELSE Nth(seps, k) - 1
    IN [k \in 1..(n + 1) |-> SubSeq(s, from(k), to(k))]

\* re.match(r'^\d+$', part.rstrip('.'))
DigitsOnly(part) ==
    LET core == RStripDots(part)
    IN core # <<>> /\ \A i \in 1..Len(core) : IsDigit(core[i])

\* the parts kept as sentences by _extract_sentences
RECURSIVE KeptParts(_)
KeptParts(parts) ==
    IF parts = <<>> THEN <<>>
    ELSE IF Head(parts) # <<>> /\ ~DigitsOnly(Head(parts))
         THEN <<Head(parts)>> \o KeptParts(Tail(parts))
         ELSE KeptParts(Tail(parts))

\* _extract_sentences on the buffer b: the sentences and the new buffer
ExtractSentences(b) ==
    LET parts == SplitSentences(b)
    IN IF Len(parts) = 1
       THEN [sentences |-> <<>>, buffer |-> b]
       ELSE [sentences |-> KeptParts(SubSeq(parts, 1, Len(parts) - 1)),
             buffer |-> parts[Len(parts)]]

\* add_text(text) on the buffer b
AddText(b, text) ==
    IF text = <<>>
    THEN [sentences |-> <<>>, buffer |-> b]
    ELSE LET spaced == IF b # <<>> /\ b[Len(b)] # " "
                       THEN Append(b, " ") ELSE b
         IN ExtractSentences(spaced \o Strip(text))

\* force_flush() on the buffer b
ForceFlush(b) ==
    IF b = <<>> THEN [sentences |-> <<>>, buffer |-> <<>>]
    ELSE [sentences |-> IF Strip(b) # <<>> THEN <<Strip(b)>> ELSE <<>>,
          buffer |-> <<>>]

\* ------------------------------------------------------------------------
\* TranscriptionDeduplicator and ClaimDeduplicator
\* ------------------------------------------------------------------------
TranscriptTTL == 10     \* TranscriptionDeduplicator(ttl_seconds=10.0)
ClaimTTL == 60          \* ClaimDeduplicator(ttl_seconds=60.0)
CleanupInterval == 60   \* _cleanup_interval

\* the characters _hash_text removes
IsHashPunct(ch) == ch \in {".", ",", "!", "?"}
NotHashPunct(ch) == ~IsHashPunct(ch)

\* the characters _hash_claim keeps
IsAlnumOrSpace(ch) == IsAlnum(ch) \/ IsSpace(ch)

\* _hash_text: the normalized text (md5 of it is taken to be injective)
HashText(text) == SelectSeq(Strip(LowerStr(text)), NotHashPunct)

\* _hash_claim: the normalized claim text
HashClaim(text) == JoinSplit(SelectSeq(Strip(LowerStr(text)), IsAlnumOrSpace))

\* _cleanup_cache that sweeps on every call
CleanupCacheAlways(cache, last, t, ttl) ==
    [cache |-> [k \in {h \in DOMAIN cache : ~(t - cache[h].ts > ttl)}
                  |-> cache[k]],
     last |-> t]

\* _cleanup_cache: entries are records with a field ts
CleanupCache(cache, last, t, ttl) ==
    IF t - last < CleanupInterval
    THEN [cache |-> cache, last |-> last]
    ELSE [cache |-> [k \in {h \in DOMAIN cache : ~(t - cache[h].ts > ttl)}
                        |-> cache[k]],
          last |-> t]

\* cache with the entry of key replaced by entry
Put(cache, key, entry) ==
    [k \in DOMAIN cache \cup {key} |-> IF k = key THEN entry ELSE cache[k]]

\* is_duplicate(text) at time t: the answer and the deduplicator afterwards
IsDuplicateNever(cache, last, text, t) ==
    LET swept == CleanupCache(cache, last, t, TranscriptTTL)
        key == HashText(text)
    IN [dup |-> FALSE, cache |-> Put(swept.cache, key, [ts |-> t]),
        last |-> swept.last]

\* is_duplicate that leaves expiry to the sweep
IsDuplicateSweptOnly(cache, last, text, t) ==
    LET swept == CleanupCache(cache, last, t, TranscriptTTL)
        key == HashText(text)
    IN [dup |-> key \in DOMAIN swept.cache,
        cache |-> Put(swept.cache, key, [ts |-> t]),
        last |-> swept.last]

\* is_duplicate that does not refresh the timestamp on a hit
IsDuplicateFixedWindow(cache, last, text, t) ==
    LET swept == CleanupCache(cache, last, t, TranscriptTTL)
        key == HashText(text)
        hit == /\ key \in DOMAIN swept.cache
               /\ t - swept.cache[key].ts < TranscriptTTL
    IN [dup |-> hit,
        cache |-> IF hit THEN swept.cache
                  ELSE Put(swept.cache, key, [ts |-> t]),
        last |-> swept.last]

IsDuplicate(cache, last, text, t) ==
    LET swept == CleanupCache(cache, last, t, TranscriptTTL)
        key == HashText(text)
    IN [dup |-> /\ key \in DOMAIN swept.cache
                /\ t - swept.cache[key].ts < TranscriptTTL,
        cache |-> Put(swept.cache, key, [ts |-> t]),
        last |-> swept.last]

\* the verdict a miss stands for
NoVerdict == "none"

\* get_cached_result(text) at time t
GetCachedResultMiss(cache, last, text, t) ==
    LET swept == CleanupCache(cache, last, t, ClaimTTL)
    IN [result |-> NoVerdict, cache |-> swept.cache, last |-> swept.last]

\* get_cached_result that refreshes the timestamp on a hit
GetCachedResultRefresh(cache, last, text, t) ==
    LET swept == CleanupCache(cache, last, t, ClaimTTL)
        key == HashClaim(text)
        hit == /\ key \in DOMAIN swept.cache
               /\ t - swept.cache[key].ts < ClaimTTL
    IN [result |-> IF hit THEN swept.cache[key].result ELSE NoVerdict,
        cache |-> IF hit
                  THEN Put(swept.cache, key,
                           [ts |-> t, result |-> swept.cache[key].result])
                  ELSE swept.cache,
        last |-> swept.last]

GetCachedResult(cache, last, text, t) ==
    LET swept == CleanupCache(cache, last, t, ClaimTTL)
        key == HashClaim(text)
    IN [result |-> IF /\ key \in DOMAIN swept.cache
                      /\ t - swept.cache[key].ts < ClaimTTL
                   THEN swept.cache[key].result ELSE NoVerdict,
        cache |-> swept.cache, last |-> swept.last]

\* cache_result(text, result) at time t
CacheResult(cache, text, result, t) ==
    Put(cache, HashClaim(text), [ts |-> t, result |-> result])

\* ------------------------------------------------------------------------
\* FactCheckingOrchestrator
\* ------------------------------------------------------------------------
MaxClaims == 2          \* extract_claims returns at most MaxClaims claims
OrMaxTime == 1          \* the clock runs over 0..OrMaxTime while calls are made
FlushThreshold == 100   \* len(pending) > 100 forces a flush

\* concurrent process_transcription calls
Procs == {"p1", "p2"}

\* "The sky is blue."
SkyIsBlue == <<"T", "h", "e", " ", "s", "k", "y", " ", "i", "s", " ",
               "b", "l", "u", "e", ".">>

\* "a. b": one terminated sentence and an unterminated rest
TwoParts == <<"a", ".", " ", "b">>

\* texts passed to process_transcription
Texts == {<<>>, <<" ">>, SkyIsBlue, TwoParts}

\* claim texts the extraction collaborator returns; the first two have the
\* same normalized text
ClaimTexts == {<<"A", "b", ".">>, <<"a", "b">>, <<"s">>}

\* lists of claims extract_claims returns
ClaimLists == UNION {[1..n -> ClaimTexts] : n \in 0..MaxClaims}

\* verdict.status
Statuses == {"supported", "contradicted"}

\* what claim_extractor.extract raises
ExtractFaults == {"ConnectionError", "TimeoutError", "KeyError",
                  "ValueError", "RuntimeError"}

\* what fact_checker.verify raises ("exa" / "groq": an exception whose
\* message names the provider)
VerifyFaults == {"ConnectionError", "TimeoutError", "ValueError", "exa",
                 "groq", "RuntimeError"}

\* outcomes of connection_manager.broadcast as the orchestrator sees them
BroadcastOutcomes == {"sent", "Exception"}

VARIABLES
    buffer,              \* SentenceAggregator._buffer
    tcache,              \* transcription_dedup._cache: key -> [ts]
    tLast,               \* transcription_dedup._last_cleanup
    ccache,              \* claim_dedup._cache: key -> [ts, result]
    cLast,               \* claim_dedup._last_cleanup
    pc,                  \* per call: the await it is suspended at, or idle
    callText,            \* per call: the text argument
    sents,               \* per call: sentences not yet finished, current first
    claims,              \* per call: claims of the current sentence not yet
                         \* finished, current first
    verdict,             \* per call: status held for the verdict broadcast
    raised,              \* per call: an exception left process_transcription
    lastEv,              \* history, per call: the events of its last step
    sent,                \* history, per call: the broadcasts delivered, in
                         \* order, kept for the first call on the
                         \* orchestrator
    repeat,              \* history, per call: the same text was passed less
                         \* than TranscriptTTL before
    fresh,               \* history, per call: first call on the orchestrator
    passedAt,            \* history: text -> [ts] of the last call with it
    firstOk,             \* history: key -> [ts, result] of the first
                         \* successful verification
    reverified           \* history: keys verified successfully again less
                         \* than ClaimTTL after the first time

orVars == <<buffer, tcache, tLast, ccache, cLast, pc, callText, sents, claims,
            verdict, raised, lastEv, sent, repeat, fresh, passedAt,
            firstOk,
            reverified>>

Empty == [k \in {} |-> 0]

Ev(ev, arg) == [ev |-> ev, arg |-> arg]

\* the events es happen in one step of call p
Note(p, es) ==
    /\ lastEv' = [lastEv EXCEPT ![p] = es]
    /\ sent' = [sent EXCEPT ![p] =
                  IF fresh[p] /\ es[1].ev \in {"transcript", "verdict", "error"}
                  THEN Append(@, es[1]) ELSE @]

\* ClaimExtractionService.extract_claims: the exception it raises when the
\* extractor raises fault
ExtractError(fault) ==
    IF fault \in {"ConnectionError", "TimeoutError"}
    THEN "GroqAPIError" ELSE "ClaimExtractionError"

\* VerificationService.verify_claim: the exception it raises when the fact
\* checker raises fault
VerifyError(fault) ==
    CASE fault \in {"ConnectionError", "TimeoutError"} -> "EvidenceSearchError"
      [] fault = "ValueError" -> "VerificationError"
      [] fault = "exa" -> "ExaAPIError"
      [] fault = "groq" -> "GroqAPIError"
      [] OTHER -> "VerificationError"

\* _process_sentence, the handlers around extract_claims: what is done with
\* the exception exc
ExtractHandler(exc) ==
    IF exc = "ClaimExtractionError"
    THEN [do |-> "broadcast_error", exc |-> exc]
    ELSE [do |-> "raise", exc |-> "ClaimExtractionError"]

\* _process_sentence, the handlers of the outer try
SentenceHandlerNoCatchAll(exc) ==
    CASE exc = "ClaimExtractionError" -> "pass"
      [] exc = "TextProcessingError" -> "broadcast_error"
      [] OTHER -> "propagate"

SentenceHandler(exc) ==
    CASE exc = "ClaimExtractionError" -> "pass"
      [] exc = "TextProcessingError" -> "broadcast_error"
      [] OTHER -> "broadcast_error_guarded"

\* _verify_and_broadcast_claim, the handlers around verify_claim
VerifyHandler(exc) ==
    IF exc = "VerificationError"
    THEN [do |-> "broadcast_error", exc |-> exc]
    ELSE [do |-> "raise", exc |-> "VerificationError"]

\* _verify_and_broadcast_claim, the handlers around the verdict broadcast
VerdictHandler(exc) ==
    IF exc = "MessageBroadcastError"
    THEN [do |-> "pass", exc |-> exc]
    ELSE [do |-> "raise", exc |-> "MessageBroadcastError"]

\* _verify_and_broadcast_claim, the handlers of the outer try
ClaimHandler(exc) ==
    CASE exc \in {"VerificationError", "MessageBroadcastError"} -> "pass"
      [] OTHER -> "broadcast_error_guarded"

\* process_transcription: the punctuation added to a text without one
Punctuated(text) ==
    LET t == RStrip(text)
    IN IF t # <<>> /\ IsTerm(t[Len(t)]) THEN text ELSE Append(t, ".")

\* process_transcription: add_text, and force_flush when nothing is complete
\* and the pending text is longer than FlushThreshold
Aggregate(b, text) ==
    LET r == AddText(b, Punctuated(text))
    IN IF r.sentences = <<>> /\ r.buffer # <<>>
          /\ Len(r.buffer) > FlushThreshold
       THEN ForceFlush(r.buffer) ELSE r

OrInit ==
    /\ buffer = <<>>
    /\ tcache = Empty
    /\ tLast = 0
    /\ ccache = Empty
    /\ cLast = 0
    /\ pc = [p \in Procs |-> "idle"]
    /\ callText = [p \in Procs |-> <<>>]
    /\ sents = [p \in Procs |-> <<>>]
    /\ claims = [p \in Procs |-> <<>>]
    /\ verdict = [p \in Procs |-> NoVerdict]
    /\ raised = [p \in Procs |-> FALSE]
    /\ lastEv = [p \in Procs |-> <<>>]
    /\ sent = [p \in Procs |-> <<>>]
    /\ repeat = [p \in Procs |-> FALSE]
    /\ fresh = [p \in Procs |-> FALSE]
    /\ passedAt = Empty
    /\ firstOk = Empty
    /\ reverified = {}

\* the for loop of process_transcription goes on with the sentences ss;
\* e is what has just happened
BeginSentences(p, ss, e) ==
    /\ sents' = [sents EXCEPT ![p] = ss]
    /\ claims' = [claims EXCEPT ![p] = <<>>]
    /\ verdict' = [verdict EXCEPT ![p] = NoVerdict]
    /\ Note(p, <<e>>)
    /\ pc' = [pc EXCEPT ![p] = IF ss = <<>> THEN "idle" ELSE "extracting"]
    /\ UNCHANGED <<ccache, cLast, raised>>

\* the for loop of _process_sentence goes on with the claims cs: the cache
\* is asked for the first of them
BeginClaims(p, cs, e) ==
    IF cs = <<>> THEN BeginSentences(p, Tail(sents[p]), e)
    ELSE LET got == GetCachedResult(ccache, cLast, Head(cs), now)
         IN /\ claims' = [claims EXCEPT ![p] = cs]
            /\ ccache' = got.cache
            /\ cLast' = got.last
            /\ verdict' = [verdict EXCEPT ![p] = got.result]
            /\ IF got.result # NoVerdict
               THEN /\ pc' = [pc EXCEPT ![p] = "bc_verdict"]
                    /\ Note(p, <<e, Ev("cache_hit", got.result)>>)
               ELSE /\ pc' = [pc EXCEPT ![p] = "verifying"]
                    /\ Note(p, <<e>>)
            /\ UNCHANGED <<sents, raised>>

\* exc is raised inside the outer try of _process_sentence
RaiseInSentence(p, exc, e) ==
    LET h == SentenceHandler(exc)
    IN IF h = "pass" THEN BeginSentences(p, Tail(sents[p]), e)
       ELSE /\ Note(p, <<e>>)
            /\ pc' = [pc EXCEPT ![p] =
                  CASE h = "broadcast_error" -> "bc_text_error"
                    [] h = "broadcast_error_guarded" -> "bc_sentence_error"
                    [] OTHER -> "idle"]
            /\ raised' = [raised EXCEPT ![p] = (h = "propagate")]
            /\ UNCHANGED <<sents, claims, verdict, ccache, cLast>>

\* exc is raised inside the outer try of _verify_and_broadcast_claim
RaiseInClaim(p, exc, e) ==
    LET h == ClaimHandler(exc)
    IN CASE h = "pass" -> BeginClaims(p, Tail(claims[p]), e)
         [] h = "broadcast_error_guarded" ->
              /\ Note(p, <<e>>)
              /\ pc' = [pc EXCEPT ![p] = "bc_claim_error"]
              /\ UNCHANGED <<sents, claims, verdict, ccache, cLast, raised>>
         [] OTHER -> RaiseInSentence(p, exc, e)

\* process_transcription(text) up to the transcript broadcast
Start(p, text) ==
    /\ pc[p] = "idle"
    /\ callText' = [callText EXCEPT ![p] = text]
    /\ raised' = [raised EXCEPT ![p] = FALSE]
    /\ lastEv' = [lastEv EXCEPT ![p] = <<>>]
    /\ sent' = [sent EXCEPT ![p] = <<>>]
    /\ IF text = <<>> \/ Strip(text) = <<>>
       THEN /\ repeat' = [repeat EXCEPT ![p] = FALSE]
            /\ fresh' = [fresh EXCEPT ![p] = FALSE]
            /\ UNCHANGED <<pc, tcache, tLast, passedAt>>
       ELSE LET d == IsDuplicate(tcache, tLast, text, now)
            IN /\ tcache' = d.cache
               /\ tLast' = d.last
               /\ pc' = [pc EXCEPT ![p] =
                            IF d.dup THEN "idle" ELSE "bc_transcript"]
               /\ repeat' = [repeat EXCEPT ![p] =
                                /\ text \in DOMAIN passedAt
                                /\ now - passedAt[text].ts < TranscriptTTL]
               /\ fresh' = [fresh EXCEPT ![p] =
                               /\ DOMAIN passedAt = {}
                               /\ \A q \in Procs : pc[q] = "idle"]
               /\ passedAt' = Put(passedAt, text, [ts |-> now])
    /\ UNCHANGED <<buffer, ccache, cLast, sents, claims, verdict, firstOk,
                   reverified>>

\* the transcript broadcast is over; the text is aggregated into sentences
\* and the first of them is given to extract_claims
TranscriptDone(p, out) ==
    LET r == Aggregate(buffer, callText[p])
        e == Ev(IF out = "sent" THEN "transcript" ELSE "broadcast_raised",
                "transcript")
    IN /\ pc[p] = "bc_transcript"
       /\ buffer' = r.buffer
       /\ BeginSentences(p, r.sentences, e)
       /\ UNCHANGED <<tcache, tLast, callText, repeat, fresh, passedAt,
                      firstOk, reverified>>

\* extract_claims returns the claims cs
ExtractReturn(p, cs) ==
    /\ pc[p] = "extracting"
    /\ BeginClaims(p, cs, Ev("extracted", "ok"))
    /\ UNCHANGED <<buffer, tcache, tLast, callText, repeat, fresh, passedAt,
                   firstOk, reverified>>

\* extract_claims raises
ExtractRaise(p, fault) ==
    LET exc == ExtractError(fault)
        h == ExtractHandler(exc)
        e == Ev("extract_failed", exc)
    IN /\ pc[p] = "extracting"
       /\ IF h.do = "broadcast_error"
          THEN /\ pc' = [pc EXCEPT ![p] = "bc_extract_error"]
               /\ Note(p, <<e>>)
               /\ UNCHANGED <<sents, claims, verdict, ccache, cLast, raised>>
          ELSE RaiseInSentence(p, h.exc, e)
       /\ UNCHANGED <<buffer, tcache, tLast, callText, repeat, fresh,
                      passedAt, firstOk, reverified>>

\* verify_claim returns a verdict with status st; it is cached
VerifyReturn(p, st) ==
    LET claim == Head(claims[p])
        key == HashClaim(claim)
    IN /\ pc[p] = "verifying"
       /\ ccache' = CacheResult(ccache, claim, st, now)
       /\ verdict' = [verdict EXCEPT ![p] = st]
       /\ pc' = [pc EXCEPT ![p] = "bc_verdict"]
       /\ Note(p, <<Ev("verified", st)>>)
       /\ IF key \in DOMAIN firstOk
          THEN /\ reverified' =
                     IF now - firstOk[key].ts < ClaimTTL
                     THEN reverified \cup {key} ELSE reverified
               /\ UNCHANGED firstOk
          ELSE /\ firstOk' = Put(firstOk, key, [ts |-> now, result |-> st,
                                                text |-> claim])
               /\ UNCHANGED reverified
       /\ UNCHANGED <<buffer, tcache, tLast, cLast, callText, sents, claims,
                      raised, repeat, fresh, passedAt>>

\* verify_claim raises
VerifyRaiseThenVerdict(p, fault) ==
    /\ pc[p] = "verifying"
    /\ pc' = [pc EXCEPT ![p] = "bc_verdict"]
    /\ Note(p, <<Ev("verify_failed", VerifyError(fault))>>)
    /\ UNCHANGED <<sents, claims, verdict, ccache, cLast, raised>>
    /\ UNCHANGED <<buffer, tcache, tLast, callText, repeat, fresh,
                   passedAt, firstOk, reverified>>

VerifyRaise(p, fault) ==
    LET exc == VerifyError(fault)
        h == VerifyHandler(exc)
        e == Ev("verify_failed", exc)
    IN /\ pc[p] = "verifying"
       /\ IF h.do = "broadcast_error"
          THEN /\ pc' = [pc EXCEPT ![p] = "bc_verify_error"]
               /\ Note(p, <<e>>)
               /\ UNCHANGED <<sents, claims, verdict, ccache, cLast, raised>>
          ELSE RaiseInClaim(p, h.exc, e)
       /\ UNCHANGED <<buffer, tcache, tLast, callText, repeat, fresh,
                      passedAt, firstOk, reverified>>

\* the verdict broadcast is over
VerdictDone(p, out) ==
    /\ pc[p] = "bc_verdict"
    /\ IF out = "sent"
       THEN BeginClaims(p, Tail(claims[p]), Ev("verdict", verdict[p]))
       ELSE LET h == VerdictHandler(out)
                e == Ev("broadcast_raised", "verdict")
            IN IF h.do = "pass" THEN BeginClaims(p, Tail(claims[p]), e)
               ELSE RaiseInClaim(p, h.exc, e)
    /\ UNCHANGED <<buffer, tcache, tLast, callText, repeat, fresh,
                   passedAt, firstOk, reverified>>

\* the broadcast of an error message is over
ErrorDone(p, out) ==
    LET at == pc[p]
        e == Ev(IF out = "sent" THEN "error" ELSE "broadcast_raised", at)
    IN /\ at \in {"bc_extract_error", "bc_text_error", "bc_sentence_error",
                  "bc_verify_error", "bc_claim_error"}
       /\ CASE at = "bc_extract_error" ->
                 \* return, or the exception of the broadcast reaches the
                 \* outer handlers
                 IF out = "sent" THEN BeginSentences(p, Tail(sents[p]), e)
                 ELSE RaiseInSentence(p, out, e)
            [] at = "bc_verify_error" ->
                 IF out = "sent" THEN BeginClaims(p, Tail(claims[p]), e)
                 ELSE RaiseInClaim(p, out, e)
            [] at = "bc_claim_error" ->
                 \* the broadcast is guarded: _verify_and_broadcast_claim
                 \* returns either way
                 BeginClaims(p, Tail(claims[p]), e)
            [] at = "bc_sentence_error" ->
                 BeginSentences(p, Tail(sents[p]), e)
            [] OTHER ->
                 \* the broadcast of the TextProcessingError handler is not
                 \* guarded
                 IF out = "sent" THEN BeginSentences(p, Tail(sents[p]), e)
                 ELSE /\ pc' = [pc EXCEPT ![p] = "idle"]
                      /\ raised' = [raised EXCEPT ![p] = TRUE]
                      /\ Note(p, <<e>>)
                      /\ UNCHANGED <<sents, claims, verdict, ccache, cLast>>
       /\ UNCHANGED <<buffer, tcache, tLast, callText, repeat, fresh,
                      passedAt, firstOk, reverified>>

\* ------------------------------------------------------------------------
\* The two deduplicators called directly, under a clock that passes the
\* TTLs and the cleanup interval
\* ------------------------------------------------------------------------
Quantum == 5          \* resolution of the clock of the transcript dedup
TdMaxTime == 70       \* its clock stops here
CcQuantum == 20       \* resolution of the clock of the claim cache
CcMaxTime == 120      \* its clock stops here

\* "A b." and " a b" differ in case, in punctuation and in leading
\* whitespace, "a  b" differs from them in the length of an internal
\* whitespace run as well
DdTexts == {<<"A", " ", "b", ".">>, <<" ", "a", " ", "b">>,
            <<"a", " ", " ", "b">>}

VARIABLES
    ddCalled,            \* history: text -> time of the last
                         \* is_duplicate(text), None before the first
    ddRet,               \* history: the last is_duplicate call and its answer
    ccStored,            \* history: key -> [ts, result] of the last
                         \* cache_result
    ccRet                \* history: the last claim-cache call and its answer

ddVars == <<ddCalled, ddRet, ccStored, ccRet>>

\* the orchestrator but its aggregator and its two deduplicators
orRest == <<pc, callText, sents, claims, verdict, raised, lastEv,
            sent, repeat, fresh, passedAt, firstOk, reverified>>

\* "A b." and "a  b" are one claim, "b" is another
CcTexts == {<<"A", " ", "b", ".">>, <<"a", " ", " ", "b">>, <<"b">>}

DdInit ==
    /\ ddCalled = [t \in DdTexts |-> None]
    /\ ddRet = [op |-> "none", text |-> <<>>, dup |-> FALSE]
    /\ ccStored = Empty
    /\ ccRet = [op |-> "none", text |-> <<>>, result |-> NoVerdict]

\* transcription_dedup.is_duplicate(text) at the current time
DedupCall(text) ==
    LET r == IsDuplicate(tcache, tLast, text, now)
    IN /\ tcache' = r.cache
       /\ tLast' = r.last
       /\ ddCalled' = [ddCalled EXCEPT ![text] = now]
       /\ ddRet' = [op |-> "is_duplicate", text |-> text, dup |-> r.dup]
       /\ UNCHANGED <<ccStored, ccRet, ccache, cLast, buffer, orRest>>

\* claim_dedup.get_cached_result(text) at the current time
GetCall(text) ==
    LET r == GetCachedResult(ccache, cLast, text, now)
    IN /\ ccache' = r.cache
       /\ cLast' = r.last
       /\ ccRet' = [op |-> "get_cached_result", text |-> text,
                    result |-> r.result]
       /\ UNCHANGED <<ddCalled, ddRet, ccStored, tcache, tLast, buffer,
                    orRest>>

\* claim_dedup.cache_result(text, result) at the current time
CacheCall(text, result) ==
    /\ ccache' = CacheResult(ccache, text, result, now)
    /\ ccStored' = Put(ccStored, HashClaim(text),
                       [ts |-> now, result |-> result])
    /\ ccRet' = [op |-> "cache_result", text |-> text, result |-> result]
    /\ UNCHANGED <<cLast, ddCalled, ddRet, tcache, tLast, buffer, orRest>>

\* time.time() grows by d, up to limit
Pass(d, limit) ==
    /\ now + d <= limit
    /\ now' = now + d
    /\ UNCHANGED <<failure_threshold, recovery_timeout, state, failure_count,
                   success_count, last_failure_time, callPc, admittedIn,
                   callResult, consecFails, hoFailAt>>

\* ------------------------------------------------------------------------
\* The sentence aggregator called directly
\* ------------------------------------------------------------------------
AgMaxCalls == 3       \* add_text is called at most this often

PiText == <<"P", "i", " ", "i", "s", " ", "3", ".", "1", "4", " ",
            "t", "o", "d", "a", "y", ".">>

\* the fragments passed to add_text
AgTexts == {<<>>, <<" ">>, <<"a">>, <<"b", ".">>, <<"3", ".">>, TwoParts,
            PiText}

VARIABLES
    agIn,                \* history: the characters of the fragments passed
                         \* so far that are not whitespace
    agOut,               \* history: the characters of the sentences returned
                         \* so far that are not whitespace
    agRet,               \* history: the last add_text call, the pending text
                         \* before it and what it returned
    agCalls              \* history: the number of add_text calls

agVars == <<agIn, agOut, agRet, agCalls>>

AgInit ==
    /\ agIn = <<>>
    /\ agOut = <<>>
    /\ agRet = [text |-> <<>>, before |-> <<>>, sentences |-> <<>>]
    /\ agCalls = 0

\* ''.join(strs) without its whitespace
RECURSIVE Letters(_)
Letters(strs) ==
    IF strs = <<>> THEN <<>>
    ELSE SelectSeq(Head(strs), LAMBDA ch : ~IsSpace(ch)) \o Letters(Tail(strs))

\* sentence_aggregator.add_text(text)
AddCall(text) ==
    LET r == AddText(buffer, text)
    IN /\ agCalls < AgMaxCalls
       /\ buffer' = r.buffer
       /\ agIn' = agIn \o Letters(<<text>>)
       /\ agOut' = agOut \o Letters(r.sentences)
       /\ agRet' = [text |-> text, before |-> buffer,
                    sentences |-> r.sentences]
       /\ agCalls' = agCalls + 1
       /\ UNCHANGED <<tcache, tLast, ccache, cLast, orRest>>

\* ------------------------------------------------------------------------
\* WebSocketServer: the running server and its shutdown
\* ------------------------------------------------------------------------
VARIABLES
    sdPc,                \* shutdown(): "up" before it, "stopping" at the
                         \* await in TranscriptionService.stop, then "down"
    is_running,          \* TranscriptionService.is_running
    capturing,           \* AudioStreamProcessor.is_running
    lastInput            \* history: the last transcription input that was
                         \* accepted, and sdPc at that time

sdVars == <<sdPc, is_running, capturing, lastInput>>

\* the server after startup()
SdInit ==
    /\ sdPc = "up"
    /\ is_running = TRUE
    /\ capturing = TRUE
    /\ lastInput = [via |-> "none", at |-> "up"]

\* _process_audio_queue takes a chunk and _transcribe_audio passes the
\* transcription to the orchestrator
AudioInput ==
    /\ capturing
    /\ lastInput' = [via |-> "audio", at |-> sdPc]
    /\ UNCHANGED <<sdPc, is_running, capturing>>

\* _handle_messages of the registered connection c receives a
\* test_transcript message and passes its text to the orchestrator
TestTranscript(c) ==
    /\ c \in Range(active_connections)
    /\ lastInput' = [via |-> "test_transcript", at |-> sdPc]
    /\ UNCHANGED <<sdPc, is_running, capturing>>

\* shutdown() calls transcription_service.stop(), which calls
\* audio_processor.stop() up to the await of the cancelled task
ShutdownStart ==
    /\ sdPc = "up"
    /\ sdPc' = "stopping"
    /\ capturing' = IF is_running THEN FALSE ELSE capturing
    /\ UNCHANGED <<is_running, lastInput>>

\* audio_processor.stop() is over; stop() and shutdown() return
ShutdownDone ==
    /\ sdPc = "stopping"
    /\ sdPc' = "down"
    /\ is_running' = FALSE
    /\ UNCHANGED <<capturing, lastInput>>

\* ------------------------------------------------------------------------
\* ConnectionManager with the messages of one connection: client hello and
\* personal messages
\* ------------------------------------------------------------------------
\* client_info of a hello message: client_id, platform, version
Infos == {[client_id |-> "a", platform |-> "chrome", version |-> "1"],
          [client_id |-> "b", platform |-> "chrome", version |-> "2"]}

\* a dict without the keys client_id, platform and version
NoInfo == [client_id |-> "none", platform |-> "none", version |-> "none"]

VARIABLES
    meta,        \* _connection_metadata[c], for the connections with an entry
    helloOf,     \* history: client_info of the last hello of a connection
    pmRet        \* what the last send_personal_message returned

hlVars == <<meta, helloOf, pmRet>>

HlInit ==
    /\ meta = [c \in Conns |-> NoInfo]
    /\ helloOf = [c \in Conns |-> NoInfo]
    /\ pmRet = "none"

\* get_connection_metadata(websocket)
GetConnectionMetadata(c) ==
    IF c \in connection_metadata THEN meta[c] ELSE NoInfo

\* the dicts of the connections that lose their entry go, and so does what
\* is remembered of a connection that is no longer registered
DropGone ==
    /\ meta' = [c \in Conns |->
                  IF c \in connection_metadata' THEN meta[c] ELSE NoInfo]
    /\ helloOf' = [c \in Conns |->
                     IF c \in Range(active_connections') THEN helloOf[c]
                     ELSE NoInfo]
    /\ UNCHANGED pmRet

\* _handle_client_hello(websocket, data): the dict that
\* get_connection_metadata returns is updated with client_info; without an
\* entry that dict is a new one, which nothing keeps
ClientHello(c, info) ==
    /\ c \in Range(active_connections)
    /\ meta' = IF c \in connection_metadata
               THEN [meta EXCEPT ![c] = info] ELSE meta
    /\ helloOf' = [helloOf EXCEPT ![c] = info]
    /\ UNCHANGED pmRet

\* broadcast_to_group: the connections whose metadata are info
GroupTargets(info) == {c \in connection_metadata : meta[c] = info}

\* send_personal_message(websocket, message): send_json returns or raises
SendPersonalMessage(c, outcome) ==
    /\ pmRet' = SendSafe(outcome)
    /\ UNCHANGED <<meta, helloOf>>

\* ------------------------------------------------------------------------
\* Specifications
\* ------------------------------------------------------------------------
\* the variables of the components that are specified on their own, and
\* their initial state
restVars == <<ddVars, agVars, sdVars, hlVars>>
RestInit == DdInit /\ AgInit /\ SdInit /\ HlInit

vars == <<cbVars, cmVars, mgVars, orVars, restVars>>

\* everything but the breaker, but the connection manager, but the registry,
\* but the orchestrator
notCb == <<cmVars, mgVars, orVars, restVars>>
notCm == <<cbVars, mgVars, orVars, restVars>>
notMg == <<cbVars, cmVars, orVars, restVars>>
notOr == <<cmVars, mgVars, restVars>>

\* a breaker nobody calls (the state of the breaker in SpecCM)
CBQuiet ==
    /\ failure_threshold = 1
    /\ recovery_timeout = 1
    /\ state = "closed"
    /\ failure_count = 0
    /\ success_count = 0
    /\ last_failure_time = None
    /\ now = 0
    /\ callPc = [c \in Callers |-> "idle"]
    /\ admittedIn = [c \in Callers |-> "none"]
    /\ callResult = NoResult
    /\ consecFails = 0
    /\ hoFailAt = None

InitCB == CBInit /\ CMInit /\ MgrInit /\ OrInit /\ RestInit

NextCB ==
    \/ \E c \in Callers : CallOpenReject(c) /\ UNCHANGED notCb
    \/ \E c \in Callers : CallAdmit(c) /\ UNCHANGED notCb
    \/ \E c \in Callers : CallSucceed(c) /\ UNCHANGED notCb
    \/ \E c \in Callers : CallFail(c) /\ UNCHANGED notCb
    \/ Reset /\ UNCHANGED notCb
    \/ Tick /\ UNCHANGED notCb

SpecCB == InitCB /\ [][NextCB]_vars

\* the collaborator recovers: it fails no later than FailUntil, which leaves
\* the clock room for the longest recovery_timeout; the clock goes on, calls
\* go on being made and the collaborator goes on returning
FailUntil == MaxTime - MaxTimeout

\* the callers that go on calling
LiveCallers == {1, 2}

NextCBLive ==
    \/ \E c \in LiveCallers : CallOpenReject(c) /\ UNCHANGED notCb
    \/ \E c \in LiveCallers : CallAdmit(c) /\ UNCHANGED notCb
    \/ \E c \in LiveCallers : CallSucceed(c) /\ UNCHANGED notCb
    \/ \E c \in LiveCallers : now <= FailUntil /\ CallFail(c) /\ UNCHANGED notCb
    \/ Reset /\ UNCHANGED notCb
    \/ Tick /\ UNCHANGED notCb

SpecCBLive ==
    /\ InitCB
    /\ [][NextCBLive]_vars
    /\ WF_vars(Tick /\ UNCHANGED notCb)
    /\ WF_vars(\E c \in LiveCallers : CallAdmit(c) /\ UNCHANGED notCb)
    /\ WF_vars(\E c \in LiveCallers : CallSucceed(c) /\ UNCHANGED notCb)

InitCM == CBQuiet /\ CMInit /\ MgrInit /\ OrInit /\ RestInit

NextCM ==
    \* handle_connection registers with connect(websocket), no metadata
    \/ \E c \in Conns : Connect(c, FALSE) /\ UNCHANGED notCm
    \/ \E c \in Conns : Disconnect(c) /\ UNCHANGED notCm
    \/ BroadcastEmpty /\ UNCHANGED notCm
    \/ BroadcastStart /\ UNCHANGED notCm
    \/ \E i \in 1..NumConns, o \in SendOutcomes :
          SendComplete(i, o) /\ UNCHANGED notCm
    \/ BroadcastJoin /\ UNCHANGED notCm

SpecCM == InitCM /\ [][NextCM]_vars

InitMgr == CBQuiet /\ CMInit /\ MgrInit /\ OrInit /\ RestInit

NextMgr ==
    \/ \E n \in Names : AddBreaker(n) /\ UNCHANGED notMg
    \/ \E n \in Names : MgrCallReject(n) /\ UNCHANGED notMg
    \/ \E n \in Names : MgrCallAdmit(n) /\ UNCHANGED notMg
    \/ \E n \in Names : MgrCallSucceed(n) /\ UNCHANGED notMg
    \/ \E n \in Names : MgrCallFail(n) /\ UNCHANGED notMg
    \/ MgrResetAll /\ UNCHANGED notMg
    \/ \E n \in Names \cup {Missing} : MgrReset(n) /\ UNCHANGED notMg
    \/ Tick /\ UNCHANGED <<cmVars, mgVars, orVars, restVars>>

SpecMgr == InitMgr /\ [][NextMgr]_vars

\* calls of process_transcription made one after the other
OrProcs == {"p1"}

InitOr == CBQuiet /\ CMInit /\ MgrInit /\ OrInit /\ RestInit

NextOr ==
    \/ \E p \in OrProcs, t \in Texts :
          Start(p, t) /\ UNCHANGED <<cbVars, notOr>>
    \/ \E p \in OrProcs, out \in BroadcastOutcomes :
          TranscriptDone(p, out) /\ UNCHANGED <<cbVars, notOr>>
    \/ \E p \in OrProcs, cs \in ClaimLists :
          ExtractReturn(p, cs) /\ UNCHANGED <<cbVars, notOr>>
    \/ \E p \in OrProcs, f \in ExtractFaults :
          ExtractRaise(p, f) /\ UNCHANGED <<cbVars, notOr>>
    \/ \E p \in OrProcs, st \in Statuses :
          VerifyReturn(p, st) /\ UNCHANGED <<cbVars, notOr>>
    \/ \E p \in OrProcs, f \in VerifyFaults :
          VerifyRaise(p, f) /\ UNCHANGED <<cbVars, notOr>>
    \/ \E p \in OrProcs, out \in BroadcastOutcomes :
          VerdictDone(p, out) /\ UNCHANGED <<cbVars, notOr>>
    \/ \E p \in OrProcs, out \in BroadcastOutcomes :
          ErrorDone(p, out) /\ UNCHANGED <<cbVars, notOr>>
    \/ now < OrMaxTime /\ Tick /\ UNCHANGED <<notOr, orVars>>

SpecOr == InitOr /\ [][NextOr]_vars

\* one call at a time, every broadcast delivered; a call in flight goes on
\* (each awaited broadcast and collaborator call comes back), while no
\* transcription has to arrive
\* a call in flight after its transcript broadcast: the awaited collaborator
\* call or broadcast comes back
Resumed ==
    \/ \E p \in OrProcs, cs \in ClaimLists :
          ExtractReturn(p, cs) /\ UNCHANGED <<cbVars, notOr>>
    \/ \E p \in OrProcs :
          ExtractRaise(p, "ValueError") /\ UNCHANGED <<cbVars, notOr>>
    \/ \E p \in OrProcs, st \in Statuses :
          VerifyReturn(p, st) /\ UNCHANGED <<cbVars, notOr>>
    \/ \E p \in OrProcs :
          VerifyRaise(p, "ValueError") /\ UNCHANGED <<cbVars, notOr>>
    \/ \E p \in OrProcs :
          VerdictDone(p, "sent") /\ UNCHANGED <<cbVars, notOr>>
    \/ \E p \in OrProcs : ErrorDone(p, "sent") /\ UNCHANGED <<cbVars, notOr>>

NextOrLive ==
    \/ \E p \in OrProcs, t \in Texts :
          Start(p, t) /\ UNCHANGED <<cbVars, notOr>>
    \/ \E p \in OrProcs :
          TranscriptDone(p, "sent") /\ UNCHANGED <<cbVars, notOr>>
    \/ Resumed

\* the step of pc that TranscriptDone takes: the call leaves the transcript
\* broadcast
TranscriptReturns ==
    \E p \in OrProcs, to \in {"idle", "extracting"} :
        /\ pc[p] = "bc_transcript"
        /\ pc' = [pc EXCEPT ![p] = to]

\* the event loop resumes every coroutine whose awaited call has returned,
\* and every awaited call returns
SpecOrLive ==
    /\ InitOr
    /\ [][NextOrLive]_vars
    /\ WF_pc(TranscriptReturns)
    /\ WF_vars(Resumed)

\* two overlapping calls on one orchestrator: call p1 passes "a. b" for
\* the speaker alice, call p2 passes "c. d" for the speaker bob; the
\* collaborators do not fail, every broadcast is delivered and each
\* sentence has one claim, "Ab." or "ab" (one normalized text)
TextOf(p) == IF p = "p1" THEN TwoParts ELSE <<"c", ".", " ", "d">>

\* the speaker argument of the call p (the verdict message of a claim takes
\* the speaker of the call that processes its sentence)
SpeakerOf(p) == IF p = "p1" THEN "alice" ELSE "bob"

NextOr2 ==
    \/ \E p \in Procs : Start(p, TextOf(p)) /\ UNCHANGED <<cbVars, notOr>>
    \/ \E p \in Procs :
          TranscriptDone(p, "sent") /\ UNCHANGED <<cbVars, notOr>>
    \/ \E p \in Procs, c \in {<<"A", "b", ".">>, <<"a", "b">>} :
          ExtractReturn(p, <<c>>) /\ UNCHANGED <<cbVars, notOr>>
    \/ \E p \in Procs, st \in Statuses :
          VerifyReturn(p, st) /\ UNCHANGED <<cbVars, notOr>>
    \/ \E p \in Procs : VerdictDone(p, "sent") /\ UNCHANGED <<cbVars, notOr>>

SpecOr2 == InitOr /\ [][NextOr2]_vars

\* the transcript deduplicator on its own
NextTd ==
    \/ \E t \in DdTexts :
          DedupCall(t) /\ UNCHANGED <<cbVars, cmVars, mgVars, agVars, sdVars,
                          hlVars>>
    \/ /\ Pass(Quantum, TdMaxTime)
       /\ UNCHANGED <<cmVars, mgVars, orVars, restVars>>

SpecTd == InitOr /\ [][NextTd]_vars

\* the claim cache on its own
NextCc ==
    \/ \E t \in CcTexts :
          GetCall(t) /\ UNCHANGED <<cbVars, cmVars, mgVars, agVars, sdVars,
                          hlVars>>
    \/ \E t \in CcTexts, r \in Statuses :
          CacheCall(t, r)
             /\ UNCHANGED <<cbVars, cmVars, mgVars, agVars, sdVars,
                          hlVars>>
    \/ /\ Pass(CcQuantum, CcMaxTime)
       /\ UNCHANGED <<cmVars, mgVars, orVars, restVars>>

SpecCc == InitOr /\ [][NextCc]_vars

\* both deduplicators under one clock, long enough for two sweeps of each:
\* two transcript keys, one claim key
SwDd == {<<"A", " ", "b", ".">>, <<"a", " ", " ", "b">>}
SwCc == {<<"b">>}

NextSw ==
    \/ \E t \in SwDd :
          DedupCall(t) /\ UNCHANGED <<cbVars, cmVars, mgVars, agVars, sdVars,
                          hlVars>>
    \/ \E t \in SwCc :
          GetCall(t) /\ UNCHANGED <<cbVars, cmVars, mgVars, agVars, sdVars,
                          hlVars>>
    \/ \E t \in SwCc :
          CacheCall(t, "supported")
             /\ UNCHANGED <<cbVars, cmVars, mgVars, agVars, sdVars,
                          hlVars>>
    \/ /\ Pass(CcQuantum, CcMaxTime)
       /\ UNCHANGED <<cmVars, mgVars, orVars, restVars>>

SpecSw == InitOr /\ [][NextSw]_vars

\* group broadcasts to two WebSocket objects that connect with or without
\* metadata
GpConns == {1, 2}

NextGp ==
    \/ \E c \in GpConns, withMeta \in BOOLEAN :
          Connect(c, withMeta) /\ UNCHANGED notCm
    \/ \E c \in GpConns : Disconnect(c) /\ UNCHANGED notCm
    \/ \E group \in SUBSET GpConns : GroupStart(group) /\ UNCHANGED notCm
    \/ \E i \in 1..NumConns, o \in SendOutcomes :
          SendComplete(i, o) /\ UNCHANGED notCm
    \/ GroupJoin /\ UNCHANGED notCm

SpecGp == InitCM /\ [][NextGp]_vars

\* connections that register with or without metadata, say hello, get
\* personal messages and leave, with broadcasts to all and to the
\* connections of one client_info
notHl == <<cbVars, mgVars, orVars, ddVars, agVars, sdVars>>

NextHl ==
    \/ \E c \in GpConns, withMeta \in BOOLEAN :
          Connect(c, withMeta) /\ DropGone /\ UNCHANGED notHl
    \/ \E c \in GpConns : Disconnect(c) /\ DropGone /\ UNCHANGED notHl
    \/ \E c \in GpConns, info \in Infos :
          ClientHello(c, info) /\ UNCHANGED <<cmVars, notHl>>
    \/ \E c \in GpConns, o \in SendOutcomes :
          SendPersonalMessage(c, o) /\ UNCHANGED <<cmVars, notHl>>
    \/ BroadcastEmpty /\ DropGone /\ UNCHANGED notHl
    \/ BroadcastStart /\ DropGone /\ UNCHANGED notHl
    \/ \E info \in Infos :
          GroupStart(GroupTargets(info)) /\ DropGone /\ UNCHANGED notHl
    \/ \E i \in 1..NumConns, o \in SendOutcomes :
          SendComplete(i, o) /\ DropGone /\ UNCHANGED notHl
    \/ BroadcastJoin /\ DropGone /\ UNCHANGED notHl
    \/ GroupJoin /\ DropGone /\ UNCHANGED notHl

SpecHl == InitCM /\ [][NextHl]_vars

\* the server with connections that come and go, until it is shut down
notSd == <<cbVars, cmVars, mgVars, orVars, ddVars, agVars, hlVars>>

NextSd ==
    \/ \E c \in Conns :
          sdPc # "down" /\ Connect(c, FALSE) /\ UNCHANGED notCm
    \/ \E c \in Conns : Disconnect(c) /\ UNCHANGED notCm
    \/ AudioInput /\ UNCHANGED notSd
    \/ \E c \in Conns : TestTranscript(c) /\ UNCHANGED notSd
    \/ ShutdownStart /\ UNCHANGED notSd
    \/ ShutdownDone /\ UNCHANGED notSd

SpecSd == InitCM /\ [][NextSd]_vars

\* the sentence aggregator on its own
NextAg ==
    \E t \in AgTexts :
       AddCall(t) /\ UNCHANGED <<cbVars, cmVars, mgVars, ddVars, sdVars,
                             hlVars>>

SpecAg == InitOr /\ [][NextAg]_vars

\* the sentence aggregator given numbers and runs of terminators: "x 3.",
\* "3.", "14", "7 b", "a?! b" and "a... b"
NumTexts == {<<"x", " ", "3", ".">>, <<"3", ".">>, <<"1", "4">>,
             <<"7", " ", "b">>, <<"a", "?", "!", " ", "b">>,
             <<"a", ".", ".", ".", " ", "b">>}

NextAg2 ==
    \E t \in NumTexts :
       AddCall(t) /\ UNCHANGED <<cbVars, cmVars, mgVars, ddVars, sdVars,
                             hlVars>>

SpecAg2 == InitOr /\ [][NextAg2]_vars

\* ------------------------------------------------------------------------
\* Steps of one caller, read off a pair of states
\* ------------------------------------------------------------------------
\* call() of caller c invokes the collaborator
Admitted(c) == callPc[c] = "idle" /\ callPc'[c] = "inflight"

\* call() of caller c raises the circuit-open error
Rejected(c) ==
    /\ callPc[c] = "idle"
    /\ callPc'[c] = "idle"
    /\ callResult' # callResult
    /\ callResult'.caller = c
    /\ callResult'.kind = "circuit_open"

\* caller c attempts call(): func is invoked, or the error is raised
Attempts(c) == Admitted(c) \/ Rejected(c)

\* the collaborator of caller c fails / succeeds
Failed(c) ==
    /\ callPc[c] = "inflight"
    /\ callPc'[c] = "idle"
    /\ callResult'.kind = "collaborator_error"

Succeeded(c) ==
    /\ callPc[c] = "inflight"
    /\ callPc'[c] = "idle"
    /\ callResult'.kind = "ok"

\* recovery_timeout has elapsed since the last recorded failure
Elapsed == last_failure_time # None /\ now - last_failure_time >= recovery_timeout

\* sends of the last broadcast by their outcome
FailedSends == {tasks[i] : i \in {j \in 1..Len(tasks) : results[j] = "False"}}
OkSends == {tasks[i] : i \in {j \in 1..Len(tasks) : results[j] = "True"}}
Returned == bcPc = "idle" /\ bcReturn # None

\* ------------------------------------------------------------------------
\* Claims
\* ------------------------------------------------------------------------

\* C1: with no connect/disconnect during the gather, broadcast sends to
\* every registered connection, returns the number of sends that succeeded,
\* and on return the registered set is the prior set minus exactly the
\* connections whose send failed.
C1_BroadcastSequential ==
    /\ (bcPc = "gathering" /\ ~interfered) => tasks = active_connections
    /\ (Returned /\ ~interfered) =>
          /\ bcReturn = Cardinality(OkSends)
          /\ bcAfter = Range(tasks) \ FailedSends
          /\ bcRemoved = FailedSends

\* a broadcast to three connections returned 2 and removed the failed one
C1_Witness ==
    /\ Returned
    /\ ~interfered
    /\ Len(tasks) = 3
    /\ bcReturn = 2
    /\ Cardinality(bcRemoved) = 1

\* C2: under every interleaving of connect/disconnect with the sends of a
\* broadcast, broadcast removes only connections whose send failed, removes
\* no connection whose send succeeded, and no connection whose send failed
\* is still registered when it returns.
C2_RemovesExactlyFailed ==
    Returned =>
        /\ bcRemoved \subseteq FailedSends
        /\ bcRemoved \cap OkSends = {}
        /\ bcAfter \cap FailedSends = {}

\* C3: broadcast is fan-out-then-join and never raises: one send per task,
\* and it returns only when every send has succeeded or failed.
C3_FanOutThenJoin ==
    /\ ~bcRaised
    /\ bcPc = "gathering" => Len(results) = Len(tasks) /\ Len(tasks) >= 1
    /\ bcPc = "idle" => bcReturn # None \/ tasks = <<>>
    /\ Returned => \A i \in 1..Len(results) : results[i] \in {"True", "False"}

\* a broadcast returned after a failed and a successful send
C3_Witness ==
    /\ Returned
    /\ \E i, j \in 1..Len(results) : results[i] = "False" /\ results[j] = "True"

C5_HalfOpenAfterTimeout ==
    [][/\ \A c \in Callers :
            (Attempts(c) /\ state = "open" /\ Elapsed) =>
                /\ Admitted(c)
                /\ state' = "half_open"
                /\ admittedIn'[c] = "half_open"
       /\ (state = "open" /\ state' # "open" /\ last_failure_time' # None) =>
            /\ Elapsed
            /\ state' = "half_open"
            /\ \E c \in Callers : Admitted(c)]_vars

\* a probe admitted in HalfOpen is in flight
C5_Witness ==
    /\ state = "half_open"
    /\ last_failure_time # None
    /\ \E c \in Callers : callPc[c] = "inflight" /\ admittedIn[c] = "half_open"

C8_SingleProbe ==
    Cardinality({c \in Callers :
                   callPc[c] = "inflight" /\ admittedIn[c] = "half_open"}) <= 1

\* C9: the breaker goes from Closed to Open only when the number of
\* failures since the most recent success has reached failure_threshold.
C9_TripOnlyOnConsecutive ==
    [][(state = "closed" /\ state' = "open") =>
          consecFails' >= failure_threshold]_vars

\* C10: the circuit-open error carries retry_after = recovery_timeout minus
\* the time elapsed since the last recorded failure.
C10_RetryAfterRemaining ==
    [][\A c \in Callers :
         Rejected(c) =>
            callResult'.retry_after =
                recovery_timeout - (now - last_failure_time)]_vars

\* call() of caller c comes back from the collaborator
Completed(c) == callPc[c] = "inflight" /\ callPc'[c] = "idle"

C12_ResetCloses ==
    [][/\ last_failure_time' = None =>
            /\ state' = "closed"
            /\ failure_count' = 0
            /\ success_count' = 0
       /\ \A c \in Callers :
            (Attempts(c) /\ last_failure_time = None) =>
                Admitted(c) /\ admittedIn'[c] = "closed"]_vars

\* the breaker had rejected a call, was reset, and admitted the next call
C12_Witness ==
    /\ last_failure_time = None
    /\ callResult.kind = "circuit_open"
    /\ \E c \in Callers : callPc[c] = "inflight" /\ admittedIn[c] = "closed"

\* C13: breakers registered under distinct names are isolated: an operation
\* on one name (add, call outcome, reset) leaves the object registered
\* under every other name unchanged, and reset(name) of an unregistered
\* name returns false and changes nothing.
C13_BreakersIsolated ==
    [][/\ \A n \in Names :
            breakers'[n] # breakers[n] =>
                mgLast'.op = "reset_all" \/ mgLast'.name = n
       /\ \A n \in Names :
            (mgPc'[n] # mgPc[n]) => mgLast'.name = n
       /\ (mgLast'.op = "reset" /\ mgLast' # mgLast) =>
            IF mgLast'.name \in Names /\ breakers[mgLast'.name] # NoBreaker
            THEN /\ mgLast'.ret = TRUE
                 /\ breakers'[mgLast'.name] =
                        NewBreaker(breakers[mgLast'.name].failure_threshold,
                                   breakers[mgLast'.name].recovery_timeout)
            ELSE /\ mgLast'.ret = FALSE
                 /\ breakers' = breakers
                 /\ mgPc' = mgPc]_vars

\* one breaker is open, the other one is probing, and a reset of a name
\* that was never registered has just returned false
C13_Witness ==
    /\ breakers["exa"].state = "open"
    /\ breakers["exa"].failure_count = MgrThreshold
    /\ breakers["groq"].state = "half_open"
    /\ mgLast = MgrOp("reset", Missing, FALSE)

\* ------------------------------------------------------------------------
\* Steps of one process_transcription call, read off a pair of states
\* ------------------------------------------------------------------------
\* call p takes a step
StepOf(p) ==
    <<pc[p], sents[p], claims[p], lastEv[p]>>' #
        <<pc[p], sents[p], claims[p], lastEv[p]>>

\* the events of the step call p takes
Happens(p, ev) ==
    StepOf(p) /\ \E i \in 1..Len(lastEv'[p]) : lastEv'[p][i].ev = ev

\* verification_service.verify_claim is invoked by call p
InvokesVerify(p) == StepOf(p) /\ pc'[p] = "verifying"

\* an error message is being broadcast by call p
ErrorUnderWay(p) ==
    pc[p] \in {"bc_extract_error", "bc_text_error", "bc_sentence_error",
               "bc_verify_error", "bc_claim_error"}

\* C14: the orchestrator invokes the verification collaborator only through
\* a CircuitBreaker: every invocation of verify_claim is a call admitted by
\* the breaker.
C14_VerifyThroughBreaker ==
    [][\A p \in Procs :
          InvokesVerify(p) => \E c \in Callers : Admitted(c)]_vars

\* C15: on a fresh orchestrator one call with "The sky is blue.", with the
\* broadcasts delivered, ends with the broadcast sequence [transcript,
\* verdict supported].
C15_SkyIsBlueEndToEnd ==
    \A p \in Procs :
        (/\ fresh[p]
         /\ callText[p] = SkyIsBlue
         /\ pc[p] = "idle"
         /\ \A i \in 1..Len(lastEv[p]) : lastEv[p][i].ev # "broadcast_raised")
        => sent[p] = <<Ev("transcript", "transcript"),
                       Ev("verdict", "supported")>>

\* C16: a call whose text was passed less than TranscriptTTL before returns
\* at once: no broadcast, no collaborator invoked, the aggregator's buffer
\* unchanged.
C16_DuplicateDropped ==
    [][\A p \in Procs :
          /\ repeat'[p] => pc'[p] = "idle" /\ lastEv'[p] = <<>>
          /\ (/\ pc[p] = "idle" /\ pc'[p] = "idle"
              /\ \A q \in Procs \ {p} : ~StepOf(q)) =>
                /\ buffer' = buffer
                /\ ccache' = ccache
                /\ sents' = sents /\ claims' = claims]_vars

\* the same text was passed again after the clock advanced and was dropped
C16_Witness ==
    /\ repeat["p1"]
    /\ callText["p1"] = SkyIsBlue
    /\ now > 0
    /\ passedAt[SkyIsBlue].ts = now
    /\ buffer = SkyIsBlue

\* C17: of claims with the same normalized text processed one after the
\* other within ClaimTTL only the first is verified, and the verdict
\* broadcast for the others is the cached one.
C17_VerifiedOnce ==
    /\ reverified = {}
    /\ \A p \in Procs :
          pc[p] = "bc_verdict" =>
             /\ HashClaim(Head(claims[p])) \in DOMAIN firstOk
             /\ verdict[p] = firstOk[HashClaim(Head(claims[p]))].result

\* the verdict of "Ab." is served from the cache for the claim "ab"
C17_Witness ==
    /\ pc["p1"] = "bc_verdict"
    /\ Head(claims["p1"]) = <<"a", "b">>
    /\ lastEv["p1"][Len(lastEv["p1"])].ev = "cache_hit"
    /\ firstOk[<<"a", "b">>].text = <<"A", "b", ".">>

\* C18: a failure in extraction, verification or broadcasting never leaves
\* process_transcription and never ends the processing of the remaining
\* sentences and claims: a call returns only with every sentence and
\* claim finished, a sentence is finished only together with its last
\* claim, and sentences and claims are finished one at a time.
C18_FailureContained ==
    [][\A p \in Procs :
          /\ ~raised'[p]
          /\ pc'[p] = "idle" => sents'[p] = <<>> /\ claims'[p] = <<>>
          /\ (sents'[p] # sents[p] /\ pc[p] \notin {"idle", "bc_transcript"}) =>
                /\ sents'[p] = Tail(sents[p])
                /\ Len(claims[p]) <= 1
          /\ (claims'[p] # claims[p] /\ pc[p] # "extracting"
                /\ sents'[p] = sents[p]) =>
                claims'[p] = Tail(claims[p])]_vars

\* the error broadcast for a failed verification raised, the guarded
\* broadcast raised as well, and the second claim is being verified
C18_Witness ==
    /\ pc["p1"] = "verifying"
    /\ Len(claims["p1"]) = 1
    /\ lastEv["p1"] = <<Ev("broadcast_raised", "bc_claim_error")>>

\* C19: every extraction failure and every verification failure leads to
\* the broadcast of an error message.
C19_FailureBroadcast ==
    [][\A p \in Procs :
          (Happens(p, "extract_failed") \/ Happens(p, "verify_failed")) =>
              ErrorUnderWay(p)']_vars

\* C20: extraction starts only when the transcript broadcast is over; a
\* verdict is broadcast only right after that claim was verified or found
\* in the cache, with that status, and never after a failed verification.
C20_EventOrder ==
    [][\A p \in Procs :
          /\ (StepOf(p) /\ pc'[p] = "extracting" /\ pc[p] = "bc_transcript") =>
                lastEv'[p][1].arg = "transcript"
          /\ (StepOf(p) /\ sents'[p] # <<>> /\ sents[p] = <<>>) =>
                pc[p] = "bc_transcript"
          /\ (StepOf(p) /\ pc'[p] = "bc_verdict") =>
                /\ lastEv'[p][Len(lastEv'[p])].ev \in {"verified", "cache_hit"}
                /\ lastEv'[p][Len(lastEv'[p])].arg = verdict'[p]
                /\ verdict'[p] \in Statuses
          /\ Happens(p, "verdict") =>
                /\ pc[p] = "bc_verdict"
                /\ lastEv[p][Len(lastEv[p])].ev \in {"verified", "cache_hit"}
                /\ lastEv'[p][1] = Ev("verdict", verdict[p])]_vars

\* a verdict was broadcast for the first claim and the second claim's
\* verification failed
C20_Witness ==
    /\ pc["p1"] = "bc_verify_error"
    /\ Len(claims["p1"]) = 1
    /\ lastEv["p1"] = <<Ev("verify_failed", "VerificationError")>>
    /\ sent["p1"] = <<Ev("transcript", "transcript"),
                      Ev("verdict", "contradicted")>>

\* is_duplicate(t) is called in this step (a call that changes nothing
\* repeats the call before it, with the same answer)
Asked(t) ==
    /\ ddRet' # ddRet \/ ddCalled' # ddCalled
    /\ ddRet'.text = t

\* the texts that have the key of t
Same(t) == {u \in DdTexts : HashText(u) = HashText(t)}

\* C21: the first is_duplicate(t) returns false, one that follows at once
\* returns true, and one that comes more than the TTL after the last call
\* for t (under any spelling with the same key) returns false, whether or
\* not a sweep has run.
C21_DedupWindow ==
    [][\A t \in DdTexts :
          Asked(t) =>
             /\ (\A u \in Same(t) : ddCalled[u] = None) => ~ddRet'.dup
             /\ ddCalled[t] = now => ddRet'.dup
             /\ (/\ ddCalled[t] # None
                 /\ \A u \in Same(t) :
                       ddCalled[u] # None => now - ddCalled[u] > TranscriptTTL)
                   => ~ddRet'.dup]_vars

\* "A b." is not a duplicate 15 s after its last call, no sweep has run
C21_Witness ==
    /\ ddRet = [op |-> "is_duplicate", text |-> <<"A", " ", "b", ".">>,
                dup |-> FALSE]
    /\ now = 15
    /\ ddCalled[<<"A", " ", "b", ".">>] = 15
    /\ tcache[<<"a", " ", "b">>].ts = 15
    /\ tLast = 0

\* C22: if each is_duplicate(t) comes less than the TTL after the call for
\* t before it, every one after the first returns true, whenever the first
\* was and whenever sweeps run.
C22_SlidingTTL ==
    [][\A t \in DdTexts :
          (Asked(t) /\ ddCalled[t] # None
                /\ now - ddCalled[t] < TranscriptTTL) => ddRet'.dup]_vars

\* "A b." is a duplicate at 65 s, in the call that sweeps the cache
C22_Witness ==
    /\ ddRet = [op |-> "is_duplicate", text |-> <<"A", " ", "b", ".">>,
                dup |-> TRUE]
    /\ now = 65
    /\ tLast = 65
    /\ ddCalled[<<"A", " ", "b", ".">>] = 65

\* C23: texts that differ only in letter case, in leading or trailing
\* whitespace, in the punctuation . , ! ? or in the length of internal
\* whitespace runs have the same key in both deduplicators, so that
\* is_duplicate answers true for one of them less than the TTL after a
\* call with the other.
C23_KeyNormalization ==
    [][LET norm(x) == JoinSplit(SelectSeq(LowerStr(x), NotHashPunct))
       IN /\ \A t, u \in DdTexts \cup CcTexts :
                norm(t) = norm(u) => HashClaim(t) = HashClaim(u)
          /\ \A t \in DdTexts :
                (/\ Asked(t)
                 /\ \E u \in DdTexts :
                       /\ norm(u) = norm(t)
                       /\ ddCalled[u] # None
                       /\ now - ddCalled[u] < TranscriptTTL)
                   => ddRet'.dup]_vars

\* get_cached_result(t) is called in this step
Got(t) ==
    /\ ccRet' # ccRet \/ cLast' # cLast \/ ccache' # ccache
    /\ ccStored' = ccStored
    /\ ccRet'.op = "get_cached_result"
    /\ ccRet'.text = t

\* C24: get_cached_result(t) returns the value of the last cache_result for
\* the key of t if that was less than the TTL ago and nothing otherwise,
\* swept or not; a read changes no entry, it only lets the sweep delete
\* entries older than the TTL.
C24_ClaimExpiry ==
    [][\A t \in CcTexts :
          Got(t) =>
             /\ ccRet'.result =
                   IF /\ HashClaim(t) \in DOMAIN ccStored
                      /\ now - ccStored[HashClaim(t)].ts < ClaimTTL
                   THEN ccStored[HashClaim(t)].result
                   ELSE NoVerdict
             /\ \A k \in DOMAIN ccache' :
                   k \in DOMAIN ccache /\ ccache'[k] = ccache[k]
             /\ \A k \in DOMAIN ccache \ DOMAIN ccache' :
                   now - ccache[k].ts > ClaimTTL]_vars

\* at 80 s the verdict cached for "b" at 0 s is still in the cache, the
\* sweep at 60 s kept it, and the read returns nothing
C24_Witness ==
    /\ ccRet = [op |-> "get_cached_result", text |-> <<"b">>,
                result |-> NoVerdict]
    /\ now = 80
    /\ cLast = 60
    /\ <<"b">> \in DOMAIN ccache
    /\ ccache[<<"b">>].ts = 0

\* C25: no character that is not whitespace is dropped: the sentences
\* returned so far followed by the pending text have the characters of the
\* fragments passed so far, in order, whitespace aside.
C25_NothingDropped == agOut \o Letters(<<buffer>>) = agIn

\* C26: add_text("Pi is 3.14 today.") on an empty buffer returns that one
\* sentence, whole, and leaves nothing pending.
C26_DecimalSentence ==
    (agRet.text = PiText /\ agRet.before = <<>>) =>
        /\ agRet.sentences = <<PiText>>
        /\ buffer = <<>>

\* C27: add_text with an empty or whitespace-only fragment returns no
\* sentence and leaves the pending text as it was.
C27_BlankIsNoOp ==
    (agCalls > 0 /\ Strip(agRet.text) = <<>>) =>
        /\ agRet.sentences = <<>>
        /\ buffer = agRet.before

\* C28: broadcast_to_group never raises, returns only when every send to the
\* group has succeeded or failed, returns the number of sends that
\* succeeded, and no connection whose send failed is still registered when
\* it returns.
C28_GroupBroadcast ==
    /\ ~bcRaised
    /\ Returned =>
          /\ \A i \in 1..Len(results) : results[i] \in {"True", "False"}
          /\ bcReturn = Cardinality(OkSends)
          /\ bcAfter \cap FailedSends = {}

\* C29: once shutdown() has returned, no connection is registered in the
\* ConnectionManager and no transcription of captured audio has been
\* accepted since.
C29_ShutdownClosesAll ==
    sdPc = "down" =>
        /\ active_connections = <<>>
        /\ ~(lastInput.via = "audio" /\ lastInput.at = "down")

\* C30: the success of a call that was admitted while the breaker was
\* Closed is not counted as a probe success and does not close a HalfOpen
\* breaker.
C30_ProbeSuccessesOnly ==
    [][\A c \in Callers :
          (Succeeded(c) /\ admittedIn[c] = "closed") =>
              /\ success_count' = success_count
              /\ state = "half_open" => state' = "half_open"]_vars

\* C31: claims with one normalized key are verified once, also by calls
\* that overlap: no call invokes verify_claim for a key while another call
\* is awaiting verify_claim for it, and no key is verified successfully a
\* second time within the TTL.
C31_OverlapVerifiedOnce ==
    /\ \A p, q \in Procs :
          (p # q /\ pc[p] = "verifying" /\ pc[q] = "verifying") =>
             HashClaim(Head(claims[p])) # HashClaim(Head(claims[q]))
    /\ reverified = {}

\* C32: every complete sentence of an accepted transcription is passed to
\* extract_claims in the end, no later transcription being needed: a call
\* accepted with a text that ends in a sentence terminator leads to a call
\* that gives the last sentence of that text to extract_claims.
C32_SentencesReachExtraction ==
    \A t \in {u \in Texts : u # <<>> /\ IsTerm(u[Len(u)])} :
        (\E p \in OrProcs : pc[p] = "bc_transcript" /\ callText[p] = t)
        ~> (\E q \in Procs :
               /\ pc[q] = "extracting"
               /\ sents[q] # <<>>
               /\ Head(sents[q]) =
                     SplitSentences(t)[Len(SplitSentences(t))])


\* C33: the speaker of every verdict event is the speaker given to the call
\* whose text contained the sentence: a call that broadcasts a verdict for a
\* sentence has the speaker of each call whose (punctuated) text holds that
\* sentence.
C33_VerdictSpeaker ==
    \A p, q \in Procs :
        LET s == Head(sents[p])
            t == Punctuated(TextOf(q))
        IN (/\ pc[p] = "bc_verdict"
            /\ \E i \in 1..(Len(t) - Len(s) + 1) :
                  SubSeq(t, i, i + Len(s) - 1) = s)
           => SpeakerOf(q) = SpeakerOf(p)


\* C34: after a registered connection has sent a client hello,
\* get_connection_metadata returns the client_id, platform and version of
\* the hello for it, and broadcast_to_group with a filter for those fields
\* has the connection among its targets.
C34_HelloStoresMetadata ==
    \A c \in Range(active_connections) :
        helloOf[c] # NoInfo =>
            /\ GetConnectionMetadata(c) = helloOf[c]
            /\ c \in GroupTargets(helloOf[c])


\* C35: the expiry sweep runs at most once per cleanup interval: a sweep
\* (a step that sets _last_cleanup) is made at least CleanupInterval after
\* the previous one or the construction, and records the current time; a
\* call made earlier than that deletes no entry.
C35_SweepOncePerInterval ==
    [][/\ tLast' # tLast =>
             now - tLast >= CleanupInterval /\ tLast' = now
       /\ cLast' # cLast =>
             now - cLast >= CleanupInterval /\ cLast' = now
       /\ now - tLast < CleanupInterval =>
             DOMAIN tcache \subseteq DOMAIN tcache'
       /\ now - cLast < CleanupInterval =>
             DOMAIN ccache \subseteq DOMAIN ccache']_vars

\* after a sweep of each cache, a later call to each within the interval
\* has left an expired entry in place
C35_Witness ==
    /\ tLast >= CleanupInterval
    /\ cLast >= CleanupInterval
    /\ now > tLast /\ now - tLast < CleanupInterval
    /\ now > cLast /\ now - cLast < CleanupInterval
    /\ \E t \in SwDd : ddCalled[t] = now
    /\ \E k \in DOMAIN tcache : now - tcache[k].ts > TranscriptTTL
    /\ ccRet.op = "get_cached_result"
    /\ \E k \in DOMAIN ccache : now - ccache[k].ts > ClaimTTL


\* C36: add_text places no sentence boundary at a period between two
\* digits, also when the digits come in two fragments: when the pending
\* text ends in a digit and a period and the fragment begins with a digit,
\* the first part that is split off, or the pending text if none is, goes
\* beyond that period. And a run of terminators gives one boundary, after
\* the whole run: no returned sentence and no pending text begins with a
\* terminator.
C36_NoSplitInNumbers ==
    LET b == agRet.before
        t == Strip(agRet.text)
        n == Len(b)
    IN /\ (/\ agCalls > 0
           /\ n >= 2 /\ b[n] = "." /\ IsDigit(b[n - 1])
           /\ t # <<>> /\ IsDigit(t[1]))
          => /\ agRet.sentences # <<>> => Len(Head(agRet.sentences)) > n
             /\ agRet.sentences = <<>> => Len(buffer) > n
       /\ \A s \in Range(agRet.sentences) \cup {buffer} :
             s # <<>> => ~IsTerm(s[1])


\* C37: in every reachable state of the breaker, calls in flight and
\* reset() included, a closed circuit has failure_count below
\* failure_threshold and success_count 0, and success_count is never more
\* than 1.
C37_BreakerInvariant ==
    /\ state = "closed" =>
          failure_count < failure_threshold /\ success_count = 0
    /\ success_count <= 1

\* the circuit has closed again after a failed probe, and one failure short
\* of the threshold has been recorded since, with a call in flight
C37_Witness ==
    /\ state = "closed"
    /\ hoFailAt # None
    /\ failure_count > 0
    /\ failure_count = failure_threshold - 1
    /\ \E c \in Callers : callPc[c] = "inflight"


\* C38: once the collaborator succeeds for good, with time advancing and
\* calls being attempted, a circuit that is open or half-open becomes
\* closed in the end and stays closed.
C38_RecoveryLiveness ==
    [](state \in {"open", "half_open"} => <>[](state = "closed"))

\* the circuit has been closed by two successful probes after the recovery
\* timeout of its last failure
C38_Witness ==
    /\ state = "closed"
    /\ failure_count = 0
    /\ last_failure_time # None
    /\ now - last_failure_time >= recovery_timeout
    /\ now > FailUntil


\* C39: after any interleaving of connect, disconnect, broadcast,
\* broadcast_to_group and send_personal_message, every connection with a
\* metadata entry is in the active set, and connection_count is the size of
\* the active set.
C39_ManagerInvariant ==
    /\ connection_metadata \subseteq Range(active_connections)
    /\ ConnectionCount = Cardinality(Range(active_connections))

\* a broadcast has removed a connection whose send failed, a personal
\* message has been sent, and of the connections left one has a metadata
\* entry and one has none
C39_Witness ==
    /\ bcPc = "idle"
    /\ bcRemoved # {}
    /\ pmRet # "none"
    /\ connection_metadata # {}
    /\ Range(active_connections) \ connection_metadata # {}

====
